---------------------------- MODULE Spec2Model ----------------------------
(***************************************************************************)
(* Browser-Vigilant: the URL feature extractor of src/model/features.py    *)
(* (extract_features and its helpers).  A caller runs one call at a time;  *)
(* several callers may run calls side by side.                             *)
(*                                                                         *)
(* A Python str is a sequence of characters; a character is a one-element  *)
(* string ("a", "/", ...).  The atom SUP2 stands for U+00B2 (superscript   *)
(* two): str.isdigit() accepts it, int() and the regex class \d do not.    *)
(*                                                                         *)
(* A Python float is modelled by the exact real it denotes.  A quotient    *)
(* a / b is the pair Rat(a, b); an entropy -sum((f/n) * log2(f/n)) is the  *)
(* term Ent(counts, n), which keeps the summands.  Rounding of IEEE        *)
(* doubles is not modelled.                                                *)
(***************************************************************************)
EXTENDS Integers, Sequences, FiniteSets, TLC

VARIABLES
  BRANDS,                \* features.py module globals (mutable Python objects)
  SUSPICIOUS_TLDS,
  LEGIT_UPI_HANDLES,
  SHORT_URL_SERVICES,
  DANGEROUS_EXTENSIONS,
  pc,                    \* pc[t]: position of caller t inside extract_features
  url,                   \* url[t]: the argument of the running call
  p,                     \* p[t]: the dict returned by parse_url_parts
  f,                     \* f[t]: the local list f = [0.0] * 56
  min_dist,              \* min_dist[t]: the local min_dist (line 186)
  writers,               \* writers[t][i]: the feature groups that assigned f[i]
  solo,                  \* solo[t]: the vector of the groups run each on a fresh f
  hist,                  \* first vector returned for each input (observer)
  unit                   \* argument/result record of a helper called on its own

tables == <<BRANDS, SUSPICIOUS_TLDS, LEGIT_UPI_HANDLES, SHORT_URL_SERVICES,
            DANGEROUS_EXTENSIONS>>
vars == <<BRANDS, SUSPICIOUS_TLDS, LEGIT_UPI_HANDLES, SHORT_URL_SERVICES,
          DANGEROUS_EXTENSIONS, pc, url, p, f, min_dist, writers, solo, hist, unit>>

---------------------------------------------------------------------------
(* Characters and str methods                                              *)

\* a sequence given as a function, as the tuple of its elements
Tuple(fn) == SubSeq(fn, 1, Len(fn))

\* a TLA+ string literal as a sequence of characters
Str(s) == Tuple([i \in 1..Len(s) |-> SubSeq(s, i, i)])

SUP2 == "^2"

LowerLetters == {Str("abcdefghijklmnopqrstuvwxyz")[i] : i \in 1..26}
UpperLetters == {Str("ABCDEFGHIJKLMNOPQRSTUVWXYZ")[i] : i \in 1..26}
Letters == LowerLetters \cup UpperLetters
DecDigits == {Str("0123456789")[i] : i \in 1..10}
HexChars == DecDigits \cup {"a", "b", "c", "d", "e", "f", "A", "B", "C", "D", "E", "F"}

\* c.lower()
ToLower(c) ==
  IF c \in UpperLetters
    THEN Str("abcdefghijklmnopqrstuvwxyz")[
           CHOOSE i \in 1..26 : Str("ABCDEFGHIJKLMNOPQRSTUVWXYZ")[i] = c]
    ELSE c

\* s.lower()
Lower(s) == Tuple([i \in 1..Len(s) |-> ToLower(s[i])])

\* c.isdigit(): decimal digits and digit-like characters such as U+00B2
IsDigit(c) == c \in DecDigits \cup {SUP2}
\* c.isalpha()
IsAlpha(c) == c \in Letters
\* regex \d on str: decimal digits only
IsDecimal(c) == c \in DecDigits
\* regex \w: alphanumerics (str.isalnum) and the underscore
IsWord(c) == c \in Letters \cup DecDigits \cup {SUP2, "_"}

\* s.isdigit(): non-empty and every character a digit
StrIsDigit(s) == Len(s) > 0 /\ \A i \in 1..Len(s) : IsDigit(s[i])
\* int(s) succeeds on a digit string only if every character is decimal
IntParses(s) == Len(s) > 0 /\ \A i \in 1..Len(s) : IsDecimal(s[i])

Max(a, b) == IF a >= b THEN a ELSE b
Min(a, b) == IF a <= b THEN a ELSE b

RECURSIVE DecValue(_)
\* int(s) for a decimal digit string
DecValue(s) ==
  IF Len(s) = 0 THEN 0
  ELSE 10 * DecValue(SubSeq(s, 1, Len(s) - 1))
       + (CHOOSE d \in 0..9 : Str("0123456789")[d + 1] = s[Len(s)])

\* the slice s[i-1:] of Python, i counted from 1
From(s, i) == SubSeq(s, i, Len(s))
\* the slice s[:i-1] of Python
Upto(s, i) == SubSeq(s, 1, i - 1)

\* pat occurs in s at position i (counted from 1)
At(s, pat, i) == i >= 1 /\ i + Len(pat) - 1 <= Len(s) /\ SubSeq(s, i, i + Len(pat) - 1) = pat

\* s.find(pat, start): the first position >= start where pat occurs, 0 when none
Find(s, pat, start) ==
  LET hits == {i \in start..(Len(s) - Len(pat) + 1) : At(s, pat, i)}
  IN IF hits = {} THEN 0 ELSE CHOOSE i \in hits : \A j \in hits : i <= j

\* s.rfind(pat): the last position where pat occurs, 0 when none
RFind(s, pat) ==
  LET hits == {i \in 1..(Len(s) - Len(pat) + 1) : At(s, pat, i)}
  IN IF hits = {} THEN 0 ELSE CHOOSE i \in hits : \A j \in hits : i >= j

\* pat in s
Contains(s, pat) == \E i \in 1..(Len(s) - Len(pat) + 1) : At(s, pat, i)

\* s.count(c) for a single character c
Count(s, c) == Cardinality({i \in 1..Len(s) : s[i] = c})

\* s.startswith(pat)
StartsWith(s, pat) == At(s, pat, 1)

RECURSIVE Split(_, _)
\* s.split(c) for a single character c: always at least one piece
Split(s, c) ==
  LET i == Find(s, <<c>>, 1)
  IN IF i = 0 THEN <<s>> ELSE <<Upto(s, i)>> \o Split(From(s, i + 1), c)

RECURSIVE JoinNoSep(_, _)
\* a faulty Join: the parts run together, the separator left out
JoinNoSep(parts, c) ==
  IF Len(parts) = 0 THEN <<>> ELSE parts[1] \o JoinNoSep(Tail(parts), c)

RECURSIVE Join(_, _)
\* c.join(parts)
Join(parts, c) ==
  IF Len(parts) = 0 THEN <<>>
  ELSE IF Len(parts) = 1 THEN parts[1]
  ELSE parts[1] \o <<c>> \o Join(Tail(parts), c)

\* s.partition(c): <<before, after>>, the whole of s and "" when c is absent
Partition(s, c) ==
  LET i == Find(s, <<c>>, 1)
  IN IF i = 0 THEN <<s, <<>>>> ELSE <<Upto(s, i), From(s, i + 1)>>

\* s.split(pat, 1): <<before, after>> around the first occurrence of pat
SplitOnce(s, pat) ==
  LET i == Find(s, pat, 1)
  IN IF i = 0 THEN <<s>> ELSE <<Upto(s, i), From(s, i + Len(pat))>>

---------------------------------------------------------------------------
(* Reference tables (features.py lines 23-57)                              *)

BrandList ==
  << Str("google"), Str("facebook"), Str("amazon"), Str("apple"), Str("microsoft"),
     Str("paypal"), Str("netflix"), Str("instagram"), Str("twitter"), Str("linkedin"),
     Str("whatsapp"), Str("youtube"), Str("yahoo"), Str("ebay"), Str("dropbox"),
     Str("spotify"), Str("adobe"), Str("chase"), Str("wellsfargo"),
     Str("bankofamerica"), Str("citi"), Str("hsbc"), Str("barclays"), Str("halifax"),
     Str("natwest"), Str("santander"), Str("lloyds"), Str("steam"), Str("roblox"),
     Str("epic"), Str("coinbase"), Str("binance"), Str("metamask"), Str("opensea"),
     Str("paytm"), Str("phonepe"), Str("gpay"), Str("bhim"), Str("razorpay"),
     Str("hdfc"), Str("icici"), Str("sbi"), Str("axis"), Str("kotak"), Str("airtel"),
     Str("jio"), Str("vodafone"), Str("bsnl"), Str("flipkart"), Str("myntra") >>

SuspiciousTldSet ==
  { Str("xyz"), Str("tk"), Str("top"), Str("cf"), Str("ml"), Str("ga"), Str("gq"),
    Str("pw"), Str("cc"), Str("icu"), Str("club"), Str("online"), Str("site"),
    Str("website"), Str("space"), Str("live"), Str("click"), Str("link"), Str("info"),
    Str("biz"), Str("work"), Str("tech"), Str("store"), Str("shop"), Str("ru"),
    Str("cn"), Str("vip"), Str("win"), Str("loan"), Str("download") }

LegitUpiHandleSet ==
  { Str("okaxis"), Str("okicici"), Str("oksbi"), Str("okhdfcbank"), Str("ybl"),
    Str("ibl"), Str("axl"), Str("apl"), Str("fbl"), Str("upi"), Str("paytm"),
    Str("waaxis"), Str("waxis"), Str("rajgovhdfcbank"), Str("barodampay"),
    Str("allbank"), Str("andb"), Str("aubank"), Str("cnrb"), Str("csbpay"), Str("dbs"),
    Str("dcb"), Str("federal"), Str("hdfcbank"), Str("idbi"), Str("idfc"), Str("indus"),
    Str("idfcbank"), Str("jio"), Str("kotak"), Str("lvb"), Str("mahb"), Str("nsdl"),
    Str("pnb"), Str("psb"), Str("rbl"), Str("sib"), Str("tjsb"), Str("uco"),
    Str("union"), Str("united"), Str("vijb"), Str("yapl"), Str("airtel"),
    Str("airtelpaymentsbank"), Str("postbank") }

ShortUrlServiceSet ==
  { Str("bit.ly"), Str("tinyurl.com"), Str("t.co"), Str("goo.gl"), Str("ow.ly"),
    Str("is.gd"), Str("buff.ly"), Str("adf.ly"), Str("tiny.cc"), Str("clck.ru"),
    Str("cutt.ly"), Str("rb.gy"), Str("short.io"), Str("v.gd"), Str("bitly.com"),
    Str("shorte.st"), Str("t2m.io") }

DangerousExtensionSet ==
  { Str("exe"), Str("scr"), Str("bat"), Str("cmd"), Str("ps1"), Str("vbs"), Str("wsf"),
    Str("hta"), Str("jar"), Str("msi"), Str("msp"), Str("reg"), Str("dll"), Str("pif"),
    Str("com"), Str("cpl"), Str("inf"), Str("apk"), Str("ipa"), Str("dmg"), Str("pkg"),
    Str("deb"), Str("rpm") }

---------------------------------------------------------------------------
(* Float values                                                            *)

\* the quotient a / b
Rat(a, b) == [kind |-> "rat", num |-> a, den |-> b, counts |-> <<>>]
\* float(k) of an int k
Flt(k) == Rat(k, 1)
\* 1.0 if c else 0.0
Flag(c) == IF c THEN Rat(1, 1) ELSE Rat(0, 1)
\* -sum((c / n) * log2(c / n) for c in counts)
Ent(counts, n) == [kind |-> "ent", num |-> 0, den |-> n, counts |-> counts]

\* a faulty ClampOne: the quotient without its cap
ClampNone(x) == x

\* min(x, 1.0) for a quotient x with a positive denominator
ClampOne(x) == IF x.num >= x.den THEN Rat(1, 1) ELSE x

---------------------------------------------------------------------------
(* Math helpers (features.py lines 61-115)                                 *)

\* the elements of a finite set of ints in increasing order
Sorted(S) ==
  Tuple([r \in 1..Cardinality(S) |-> CHOOSE i \in S : Cardinality({j \in S : j < i}) = r - 1])

\* for c in s: freq[c] = freq.get(c, 0) + 1 -- freq.values(): one count per
\* distinct element, in the order of first occurrence (dict insertion order)
FreqValues(s) ==
  LET firsts == Sorted({i \in 1..Len(s) : \A j \in 1..(i - 1) : s[j] # s[i]})
  IN Tuple([r \in 1..Len(firsts) |-> Cardinality({j \in 1..Len(s) : s[j] = s[firsts[r]]})])

\* a faulty shannon_entropy: n = len(freq), the number of distinct characters
shannon_entropy_distinct(s) ==
  IF Len(s) = 0 THEN Rat(0, 1) ELSE Ent(FreqValues(s), Len(FreqValues(s)))

shannon_entropy(s) ==
  IF Len(s) = 0 THEN Rat(0, 1) ELSE Ent(FreqValues(s), Len(s))

\* a faulty LevCost: a substitution charged even when the characters agree
LevCostAlways(x, y) == 1

\* cost = 0 if a[i - 1] == b[j - 1] else 1
LevCost(x, y) == IF x = y THEN 0 ELSE 1

RECURSIVE LevInner(_, _, _, _, _)
\* for j in range(1, n + 1): curr[j] = min(...).  A row is kept as the tuple
\* of its entries, entry k of the Python list at position k + 1; curr holds
\* the entries assigned so far, so the next one is entry j = Len(curr).
LevInner(a, b, i, prev, curr) ==
  LET j == Len(curr)
  IN IF j > Len(b) THEN curr
     ELSE LevInner(a, b, i, prev,
                   Append(curr, Min(Min(prev[j + 1] + 1, curr[j] + 1),
                                    prev[j] + LevCost(a[i], b[j]))))

RECURSIVE LevOuter(_, _, _)
\* for i in range(1, m + 1): curr = [i] + [0] * n; ...; prev = curr.
\* Entry 0 of a row is its index, so row i - 1 is followed by row i.
LevOuter(a, b, prev) ==
  LET i == prev[1] + 1
  IN IF i > Len(a) THEN prev
     ELSE LevOuter(a, b, LevInner(a, b, i, prev, <<i>>))

\* Wagner-Fischer with the longer string as a; returns prev[n]
levenshtein(a0, b0) ==
  LET a == IF Len(a0) < Len(b0) THEN b0 ELSE a0
      b == IF Len(a0) < Len(b0) THEN a0 ELSE b0
  IN LevOuter(a, b, Tuple([j \in 1..(Len(b) + 1) |-> j - 1]))[Len(b) + 1]

\* min(...) over a non-empty sequence of ints
MinOf(xs) ==
  CHOOSE m \in {xs[k] : k \in 1..Len(xs)} : \A k \in 1..Len(xs) : m <= xs[k]

min_brand_distance(domain) ==
  LET core == Lower(Split(domain, ".")[1])
  IN MinOf(Tuple([k \in 1..Len(BRANDS) |-> levenshtein(core, BRANDS[k])]))

\* the value of cur after the loop body has run on s[i]: the length of the
\* run of consonants that ends at s[i]
ConsonantRun(s, i) ==
  LET consonant(j) == IsAlpha(s[j]) /\ s[j] \notin {"a", "e", "i", "o", "u"}
      breaks == {j \in 1..i : ~consonant(j)}
  IN IF breaks = {} THEN i ELSE i - (CHOOSE j \in breaks : \A k \in breaks : j >= k)

\* max_run: the largest value cur takes, 0 when the loop never runs
max_consecutive_consonants(s) ==
  LET low == Lower(s)
      runs == {ConsonantRun(low, i) : i \in 1..Len(low)} \cup {0}
  IN CHOOSE m \in runs : \A r \in runs : m >= r

char_ngram_entropy(s, n) ==
  IF Len(s) < n THEN Rat(0, 1)
  ELSE LET ngrams == Tuple([i \in 1..(Len(s) - n + 1) |-> SubSeq(s, i, i + n - 1)])
       IN Ent(FreqValues(ngrams), Len(ngrams))

---------------------------------------------------------------------------
(* urllib.parse.urlparse, as parse_url_parts calls it (features.py line    *)
(* 120).  Leading control characters and embedded tab/CR/LF, which urlsplit *)
(* strips, and a netloc holding both "[" and "]", whose content urlsplit    *)
(* validates as an IP literal, are outside the inputs drawn here.           *)

SchemeChars == Letters \cup DecDigits \cup {"+", "-", "."}

UsesParams ==
  { Str(""), Str("ftp"), Str("hdl"), Str("prospero"), Str("http"), Str("imap"),
    Str("https"), Str("shttp"), Str("rtsp"), Str("rtsps"), Str("rtspu"), Str("sip"),
    Str("sips"), Str("mms"), Str("sftp"), Str("tel") }

\* the first position >= start of any of "/", "?", "#"; Len(s) + 1 when none
NetlocEnd(s, start) ==
  LET hits == {i \in start..Len(s) : s[i] \in {"/", "?", "#"}}
  IN IF hits = {} THEN Len(s) + 1 ELSE CHOOSE i \in hits : \A j \in hits : i <= j

\* _splitparams: the ";params" of the last path segment
SplitParams(path) ==
  LET i == IF Contains(path, <<"/">>)
             THEN Find(path, <<";">>, RFind(path, <<"/">>))
             ELSE Find(path, <<";">>, 1)
  IN IF i = 0 THEN <<path, <<>>>> ELSE <<Upto(path, i), From(path, i + 1)>>

\* the six components, and whether urlsplit raised
\* ValueError("Invalid IPv6 URL")
UrlResult(scheme, netloc, fragment, query, sp) ==
  [error |-> Contains(netloc, <<"[">>) # Contains(netloc, <<"]">>),
   scheme |-> scheme, netloc |-> netloc, path |-> sp[1],
   params |-> sp[2], query |-> query, fragment |-> fragment]

\* q: the text before "#", split at its first "?"
UrlParams(scheme, netloc, fragment, q) ==
  UrlResult(scheme, netloc, fragment, IF Len(q) = 2 THEN q[2] ELSE <<>>,
            IF scheme \in UsesParams /\ Contains(q[1], <<";">>)
              THEN SplitParams(q[1]) ELSE <<q[1], <<>>>>)

\* h: the text after the netloc, split at its first "#"
UrlQuery(scheme, netloc, h) ==
  UrlParams(scheme, netloc, IF Len(h) = 2 THEN h[2] ELSE <<>>, SplitOnce(h[1], <<"?">>))

\* rest: the text after the scheme
UrlNetloc(scheme, rest) ==
  IF StartsWith(rest, <<"/", "/">>)
    THEN UrlQuery(scheme, SubSeq(rest, 3, NetlocEnd(rest, 3) - 1),
                  SplitOnce(From(rest, NetlocEnd(rest, 3)), <<"#">>))
    ELSE UrlQuery(scheme, <<>>, SplitOnce(rest, <<"#">>))

\* i: the position of the first ":", 0 when none
UrlScheme(u, i) ==
  IF i > 1 /\ u[1] \in Letters /\ \A k \in 1..(i - 1) : u[k] \in SchemeChars
    THEN UrlNetloc(Lower(Upto(u, i)), From(u, i + 1))
    ELSE UrlNetloc(<<>>, u)

urlparse(u) == UrlScheme(u, Find(u, <<":">>, 1))

\* the except branch of parse_url_parts (lines 133-136)
ParseFallback(u) ==
  [scheme |-> <<>>, host |-> u, path |-> <<>>, query |-> <<>>, fragment |-> <<>>,
   port |-> <<>>, tld |-> <<>>, registered_domain |-> u, subdomain |-> <<>>,
   labels |-> <<u>>, raised |-> FALSE]

\* lines 124-132: port is <<>> for None and <<n>> for the int n;
\* labels = host.split(".")
ParseFields(r, host, port_str, labels) ==
  [scheme |-> Lower(r.scheme), host |-> host, path |-> r.path,
   query |-> r.query, fragment |-> r.fragment,
   port |-> IF StrIsDigit(port_str) THEN <<DecValue(port_str)>> ELSE <<>>,
   tld |-> labels[Len(labels)],
   registered_domain |-> IF Len(labels) >= 2
                           THEN Join(SubSeq(labels, Len(labels) - 1, Len(labels)), ".")
                           ELSE host,
   subdomain |-> IF Len(labels) > 2
                   THEN Join(SubSeq(labels, 1, Len(labels) - 2), ".") ELSE <<>>,
   labels |-> labels, raised |-> FALSE]

\* lines 119-136, r = urlparse(url) and hp = host_port.partition(":"): the
\* except branch when urlparse raised or int(port_str) raises (a digit that is
\* not decimal)
ParseTry(u, r, hp) ==
  IF r.error \/ (StrIsDigit(hp[2]) /\ ~IntParses(hp[2]))
    THEN ParseFallback(u)
    ELSE ParseFields(r, hp[1], hp[2], Split(hp[1], "."))

\* a faulty HostPort: the segment before the first "@", the userinfo when there
\* is one, is taken for host:port
HostPortFirst(r) == Partition(Split(Lower(r.netloc), "@")[1], ":")

\* lines 121-123: netloc = r.netloc.lower(); host_port = netloc.split("@")[-1]
HostPort(r) ==
  LET at == Split(Lower(r.netloc), "@")
  IN Partition(at[Len(at)], ":")

\* a faulty parse_url_parts: the except branch also when no host was found
parse_url_parts_hostless(u) ==
  IF HostPort(urlparse(u))[1] = <<>>
    THEN ParseFallback(u)
    ELSE ParseTry(u, urlparse(u), HostPort(urlparse(u)))

\* raised: the call lets an exception out (never: "except Exception" catches
\* what the try block raises)
parse_url_parts(u) == ParseTry(u, urlparse(u), HostPort(urlparse(u)))

---------------------------------------------------------------------------
(* The regular expressions of extract_features, each as the scan the re     *)
(* module performs on it                                                    *)

Base64Chars == Letters \cup DecDigits \cup {"+", "/"}
UpiLocalChars == Letters \cup DecDigits \cup {".", "_", "-"}
AsciiAlnum == Letters \cup DecDigits
LowerHexChars == DecDigits \cup {"a", "b", "c", "d", "e", "f"}

\* the length of the longest run of characters of class cls starting at s[i]
RunLen(s, i, cls) ==
  LET stops == {j \in i..Len(s) : s[j] \notin cls}
  IN IF i > Len(s) THEN 0
     ELSE IF stops = {} THEN Len(s) - i + 1
     ELSE (CHOOSE j \in stops : \A k \in stops : j <= k) - i

\* re.search(r"[cls]{k,}", s)
HasRun(s, cls, k) == \E i \in 1..(Len(s) - k + 1) : RunLen(s, i, cls) >= k

\* \b between s[i-1] and s[i]
WordBoundary(s, i) ==
  (i > 1 /\ IsWord(s[i - 1])) # (i <= Len(s) /\ IsWord(s[i]))

RECURSIVE IpGroups(_, _, _)
\* (?:\d{1,3}\.){k}\d{1,3}\b matches at s[i]
IpGroups(s, i, k) ==
  LET r == RunLen(s, i, DecDigits)
  IN /\ r >= 1
     /\ r <= 3
     /\ IF k = 0 THEN WordBoundary(s, i + r)
        ELSE i + r <= Len(s) /\ s[i + r] = "." /\ IpGroups(s, i + r + 1, k - 1)

\* re.search(r"\b(?:\d{1,3}\.){3}\d{1,3}\b", s)
IpSearch(s) == \E i \in 1..Len(s) : WordBoundary(s, i) /\ IpGroups(s, i, 3)

\* r"%[0-9a-fA-F]{2}" matches at s[i]
PctAt(s, i) ==
  s[i] = "%" /\ i + 2 <= Len(s) /\ s[i + 1] \in HexChars /\ s[i + 2] \in HexChars

\* a faulty PctScan: every "%" counted, escape or not
PctScanAny(s, i) == Cardinality({j \in i..Len(s) : s[j] = "%"})

RECURSIVE PctScan(_, _)
\* len(re.findall(r"%[0-9a-fA-F]{2}", s)): the non-overlapping matches from s[i]
\* on, each search resuming after the match before it
PctScan(s, i) ==
  LET hits == {j \in i..Len(s) : PctAt(s, j)}
  IN IF hits = {} THEN 0
     ELSE 1 + PctScan(s, (CHOOSE j \in hits : \A k \in hits : j <= k) + 3)

DocExts == {Str("pdf"), Str("doc"), Str("jpg"), Str("jpeg"), Str("png"), Str("gif"),
            Str("mp4"), Str("zip")}
ExeExts == {Str("exe"), Str("js"), Str("php"), Str("bat"), Str("ps1"), Str("vbs"),
            Str("cmd"), Str("scr")}

\* dbl.search(s), compiled with re.I
DoubleExtSearch(s) ==
  \E d \in DocExts : \E e \in ExeExts : Contains(Lower(s), <<".">> \o d \o <<".">> \o e)

RECURSIVE UpiMatches(_, _)
\* upi_re.finditer(s) from s[i] on: the <<local-part, handle>> of every match of
\* [a-zA-Z0-9._-]+@[a-zA-Z]+, leftmost first, both quantifiers greedy
UpiMatches(s, i) ==
  LET ok(j) == LET r == RunLen(s, j, UpiLocalChars)
               IN r >= 1 /\ j + r <= Len(s) /\ s[j + r] = "@"
                  /\ RunLen(s, j + r + 1, Letters) >= 1
      hits == {j \in i..Len(s) : ok(j)}
  IN IF hits = {} THEN <<>>
     ELSE LET j == CHOOSE j \in hits : \A k \in hits : j <= k
              r == RunLen(s, j, UpiLocalChars)
              h == RunLen(s, j + r + 1, Letters)
          IN <<[prefix |-> SubSeq(s, j, j + r - 1),
                handle |-> SubSeq(s, j + r + 1, j + r + h)]>>
             \o UpiMatches(s, j + r + 1 + h)

\* re.search(r"upi://pay|pa=.*@|vpa=", s)
UpiCollectSearch(s) ==
  \/ Contains(s, Str("upi://pay"))
  \/ \E i \in 1..Len(s) : At(s, Str("pa="), i) /\ \E j \in (i + 3)..Len(s) : s[j] = "@"
  \/ Contains(s, Str("vpa="))

\* re.search(r"\.([a-zA-Z0-9]{1,5})(?:[?#]|$)", s): <<>> for no match, <<group(1)>>
ExtSearch(s) ==
  LET ok(i) == LET r == RunLen(s, i + 1, AsciiAlnum)
               IN /\ s[i] = "."
                  /\ r >= 1
                  /\ r <= 5
                  /\ (i + r = Len(s) \/ s[i + r + 1] \in {"?", "#"})
      hits == {i \in 1..Len(s) : ok(i)}
  IN IF hits = {} THEN <<>>
     ELSE LET i == CHOOSE i \in hits : \A j \in hits : i <= j
          IN <<SubSeq(s, i + 1, i + RunLen(s, i + 1, AsciiAlnum))>>

AdminPaths == {Str("/wp-admin/"), Str("/admin/"), Str("/phpmyadmin/"), Str("/cgi-bin/")}
RedirectParams == {Str("redirect"), Str("returnurl"), Str("continue"), Str("next"),
                   Str("goto"), Str("url")}

---------------------------------------------------------------------------
(* The eight feature groups of extract_features.  Each takes the argument   *)
(* u, the parsed dict pp and the list fv as it stands when the group runs,  *)
(* and yields the assignments f[i] = ... of the group.                      *)

Indices == 0..55
\* f = [0.0] * 56
ZeroVector == [i \in Indices |-> Rat(0, 1)]

\* lines 262-288: the names, under the "# Group X" comment they stand below
FeatureNameGroups ==
  [A |-> <<"url_length", "domain_length", "path_length", "query_length",
           "dot_count", "hyphen_count", "underscore_count", "slash_count",
           "at_count", "digit_count", "digit_ratio", "is_https",
           "ip_in_url", "is_punycode", "subdomain_depth", "port_anomaly">>,
   B |-> <<"url_entropy", "domain_entropy", "path_entropy",
           "domain_bigram_entropy", "domain_trigram_entropy">>,
   C |-> <<"brand_spoof_flag", "brand_distance_norm", "brand_in_subdomain_only">>,
   D |-> <<"has_login_kw", "has_trust_kw_in_domain", "has_payment_kw",
           "has_free_kw", "has_fraud_kw", "keyword_density", "hyphen_in_domain">>,
   E |-> <<"double_extension", "pct_encoding_ratio", "heavy_encoding",
           "query_param_count", "has_fragment", "is_data_uri", "path_traversal">>,
   F |-> <<"suspicious_tld", "tld_length", "has_subdomain", "numeric_domain",
           "url_compression_ratio", "vowel_ratio", "max_consonant_run",
           "is_short_url", "base64_in_query", "path_depth">>,
   G |-> <<"upi_vpa_present", "suspicious_upi_vpa", "upi_collect_request">>,
   H |-> <<"dangerous_extension", "admin_path", "open_redirect",
           "max_char_repeat_ratio", "hex_token_in_url">>]

FEATURE_NAMES ==
  FeatureNameGroups.A \o FeatureNameGroups.B \o FeatureNameGroups.C \o
  FeatureNameGroups.D \o FeatureNameGroups.E \o FeatureNameGroups.F \o
  FeatureNameGroups.G \o FeatureNameGroups.H

\* a faulty Assign: the slots counted from 1, f[lo + 1], f[lo + 2], ...
AssignFromOne(lo, vs) == [i \in (lo + 1)..(lo + Len(vs)) |-> vs[i - lo]]

\* the assignments vs[1], vs[2], ... to f[lo], f[lo + 1], ...
Assign(lo, vs) == [i \in lo..(lo + Len(vs) - 1) |-> vs[i - lo + 1]]

\* a faulty LenFloor: the denominator without its floor, len(url)
LenNoFloor(u) == Len(u)

\* max(len(url), 1): the floor of the denominators (lines 170, 213, 225)
LenFloor(u) == Max(Len(u), 1)

GroupA(u, pp, fv) ==
  LET no_proto == IF Contains(u, Str("//"))
                    THEN LET s == SplitOnce(u, Str("//")) IN s[Len(s)]
                    ELSE u
      digits == Cardinality({i \in 1..Len(u) : IsDigit(u[i])})
  IN Assign(0, <<
       Flt(Len(u)),
       Flt(Len(pp.host)),
       Flt(Len(pp.path)),
       Flt(Len(pp.query)),
       Flt(Count(u, ".")),
       Flt(Count(u, "-")),
       Flt(Count(u, "_")),
       Flt(Count(no_proto, "/")),
       Flt(Count(u, "@")),
       Flt(digits),
       Rat(digits, LenFloor(u)),
       Flag(pp.scheme = Str("https")),
       Flag(IpSearch(pp.host)),
       Flag(Contains(pp.host, Str("xn--"))),
       Flt(Max(Len(pp.labels) - 2, 0)),
       Flag(pp.port # <<>> /\ pp.port[1] \notin {80, 443, 8080, 8443}) >>)

GroupB(u, pp, fv) ==
  Assign(16, <<
    shannon_entropy(u),
    shannon_entropy(pp.host),
    shannon_entropy(pp.path),
    char_ngram_entropy(pp.host, 2),
    char_ngram_entropy(pp.host, 3) >>)

\* a faulty brand_spoof_flag: the exact match flagged too
brand_spoof_flag_exact(d) == Flag(d <= 2)

\* line 187: 1.0 if 0 < min_dist <= 2 else 0.0
brand_spoof_flag(d) == Flag(0 < d /\ d <= 2)

\* a faulty brand_in_subdomain_only: the registered domain not looked at
brand_in_subdomain(sub, domain) ==
  Flag(\E k \in 1..Len(BRANDS) : Contains(sub, BRANDS[k]))

\* lines 189-191
brand_in_subdomain_only(sub, domain) ==
  LET brand_sub == \E k \in 1..Len(BRANDS) : Contains(sub, BRANDS[k])
      brand_reg == \E k \in 1..Len(BRANDS) : Contains(Split(domain, ".")[1], BRANDS[k])
  IN Flag(brand_sub /\ ~brand_reg)

\* d is the local min_dist = min_brand_distance(domain) of line 186
GroupC(u, pp, fv, d) ==
  Assign(21, <<
    brand_spoof_flag(d),
    Rat(Min(d, 10), 10),
    brand_in_subdomain_only(pp.subdomain, pp.registered_domain) >>)

login_kw == {Str("login"), Str("signin"), Str("sign-in"), Str("account"), Str("verify"),
             Str("auth"), Str("authenticate"), Str("confirm"), Str("update")}
trust_kw == {Str("secure"), Str("safe"), Str("trust"), Str("bank"), Str("protected"),
             Str("official"), Str("helpdesk")}
pay_kw == {Str("pay"), Str("payment"), Str("wallet"), Str("upi"), Str("gpay"),
           Str("paytm"), Str("bhim"), Str("razorpay"), Str("phonepay")}
free_kw == {Str("free"), Str("bonus"), Str("prize"), Str("winner"), Str("giveaway"),
            Str("reward"), Str("claim"), Str("gift"), Str("lucky"),
            Str("congratulations")}
fraud_kw == {Str("kyc"), Str("refund"), Str("tax"), Str("block"), Str("suspend"),
             Str("urgent"), Str("helpdesk"), Str("support"), Str("care"), Str("alert")}

\* a faulty all_kw: the union leaves fraud_kw out
all_kw_four == login_kw \cup trust_kw \cup pay_kw \cup free_kw

\* line 204
all_kw == login_kw \cup trust_kw \cup pay_kw \cup free_kw \cup fraud_kw

GroupD(u, pp, fv) ==
  LET low == Lower(u)
      any(kw, s) == \E k \in kw : Contains(s, k)
      hits == Cardinality({k \in all_kw : Contains(low, k)})
  IN Assign(24, <<
       Flag(any(login_kw, low)),
       Flag(any(trust_kw, pp.host)),
       Flag(any(pay_kw, low)),
       Flag(any(free_kw, low)),
       Flag(any(fraud_kw, low)),
       ClampOne(Rat(hits, 6)),
       Flag(Contains(pp.host, <<"-">>)) >>)

GroupE(u, pp, fv) ==
  LET low == Lower(u)
      pct_count == PctScan(u, 1)
      \* max(len(url) / 3, 1) as a quotient
      third == IF Len(u) > 3 THEN Rat(Len(u), 3) ELSE Rat(1, 1)
  IN Assign(31, <<
       Flag(DoubleExtSearch(pp.path)),
       Rat(pct_count, LenFloor(u)),
       ClampOne(Rat(pct_count * third.den, third.num)),
       Flt(IF pp.query # <<>> THEN Len(Split(pp.query, "&")) ELSE 0),
       Flag(pp.fragment # <<>>),
       Flag(StartsWith(low, Str("data:"))),
       Flag(Contains(pp.path, Str("..")) \/ Contains(low, Str("%2e%2e"))) >>)

GroupF(u, pp, fv) ==
  LET host == pp.host
      vowels == Cardinality({i \in 1..Len(host) : host[i] \in {"a", "e", "i", "o", "u"}})
      alpha == Cardinality({i \in 1..Len(host) : IsAlpha(host[i])})
  IN Assign(38, <<
       Flag(pp.tld \in SUSPICIOUS_TLDS),
       Flt(Len(pp.tld)),
       Flag(pp.subdomain # <<>>),
       Flag(Len(host) > 0 /\ \A i \in 1..Len(host) : IsDecimal(host[i]) \/ host[i] = "."),
       Rat(Cardinality({u[i] : i \in 1..Len(u)}), LenFloor(u)),
       Rat(vowels, Max(alpha, 1)),
       Flt(max_consecutive_consonants(host)),
       Flag(pp.registered_domain \in SHORT_URL_SERVICES),
       Flag(HasRun(pp.query, Base64Chars, 20)),
       Flt(Count(pp.path, "/")) >>)

fraud_pfx == {Str("refund"), Str("tax"), Str("prize"), Str("block"), Str("kyc"),
              Str("urgent"), Str("helpdesk"), Str("support"), Str("care")}

\* a faulty SuspiciousUpi: the loop leaves after its first match, suspicious or not
SuspiciousUpiFirst(ms, i) ==
  /\ i <= Len(ms)
  /\ \/ Lower(ms[i].handle) \notin LEGIT_UPI_HANDLES
     \/ \E fp \in fraud_pfx : Contains(Lower(ms[i].prefix), fp)

RECURSIVE SuspiciousUpi(_, _)
\* the for loop over upi_re.finditer(url), with its break
SuspiciousUpi(ms, i) ==
  IF i > Len(ms) THEN FALSE
  ELSE LET handle == Lower(ms[i].handle)
           prefix == Lower(ms[i].prefix)
       IN IF handle \notin LEGIT_UPI_HANDLES \/ \E fp \in fraud_pfx : Contains(prefix, fp)
            THEN TRUE
            ELSE SuspiciousUpi(ms, i + 1)

\* a faulty UpiSearch: re.match in place of re.search, a match at the start of
\* u only
UpiSearchAtStart(u) ==
  /\ RunLen(u, 1, UpiLocalChars) >= 1
  /\ At(u, <<"@">>, 1 + RunLen(u, 1, UpiLocalChars))
  /\ RunLen(u, 2 + RunLen(u, 1, UpiLocalChars), Letters) >= 1

\* line 236: upi_re.search(url) finds a match
UpiSearch(u) == Len(UpiMatches(u, 1)) > 0

GroupG(u, pp, fv) ==
  LET ms == UpiMatches(u, 1)
  IN Assign(48, <<
       Flag(UpiSearch(u)),
       Flag(SuspiciousUpi(ms, 1)),
       Flag(UpiCollectSearch(Lower(u))) >>)

GroupH(u, pp, fv) ==
  LET low == Lower(u)
      host == pp.host
      ext_m == ExtSearch(pp.path)
      ext == IF ext_m # <<>> THEN Lower(ext_m[1]) ELSE <<>>
      reps == {Count(host, host[i]) : i \in 1..Len(host)}
      max_rep == IF reps = {} THEN 0 ELSE CHOOSE m \in reps : \A r \in reps : m >= r
  IN Assign(51, <<
       Flag(ext \in DANGEROUS_EXTENSIONS),
       Flag(\E a \in AdminPaths : Contains(low, a)),
       Flag(\E r \in RedirectParams : Contains(low, r \o Str("=http"))),
       Rat(max_rep, Max(Len(host), 1)),
       Flag(HasRun(low, LowerHexChars, 32)) >>)

---------------------------------------------------------------------------
(* Inputs                                                                  *)

\* URLs of the repository (train.py samples, test.py) and of its documentation,
\* with inputs that exercise every branch of parse_url_parts
Corpus ==
  { Str(""),
    Str("http://paypal.com"),
    Str("http://paypa1.com"),
    Str("https://www.google.com"),
    Str("http://192.168.1.1/login"),
    Str("http://paypal-secure.account-verify.xyz/signin"),
    Str("www.example.com/login"),
    Str("http://secure.login.xyz/%61%63%63%6F%75%6E%74%2F%76%65%72%69%66%79"),
    Str("http://legit-site.com/../../../admin/passwd"),
    Str("http://antivirus-free.xyz/setup_installer.msi"),
    Str("http://sbi-refund.xyz/process?vpa=taxrefund@government"),
    Str("http://gpay-cashback.top/redeem?pa=support@googlepay"),
    Str("http://metamask-wallet.connect.xyz/swap"),
    Str("HTTPS://User@PayPal.COM:8443/Invoice.PDF.exe;v=1?next=http://x.tk&id=7#Top"),
    Str("http://bit.ly:8080/a%2Fb%zz"),
    Str("upi://pay?pa=shop@ybl&pn=Shop"),
    Str("http://a.b/x?t=0123456789abcdef0123456789abcdef"),
    Str("data:text/html,abc"),
    Str("http://[bad.host/x"),
    Str("http://a.b:8") \o <<SUP2>> \o Str("/x"),
    Str("//Host.Name/p"),
    Str("http://secure-login.verify-account.bank/update/payment/confirm"),
    Str("www.example.com/r?u=http://evil.com/x"),
    Str("http://.a.b/") }

RECURSIVE Strings(_, _)
\* every string of at most n characters of alphabet
Strings(alphabet, n) ==
  IF n = 0 THEN {<<>>}
  ELSE LET shorter == Strings(alphabet, n - 1)
       IN shorter \cup {Append(s, c) : s \in shorter, c \in alphabet}

RECURSIVE Concats(_, _)
\* every concatenation of at most n of the tokens
Concats(tokens, n) ==
  IF n = 0 THEN {<<>>}
  ELSE LET shorter == Concats(tokens, n - 1)
       IN shorter \cup {s \o k : s \in shorter, k \in tokens}

MaxGarbageLen == 3
GarbageChars == {"a", "1", ":", "/", ".", "["}

\* non-URL garbage, bare and behind a scheme and "//"
Garbage ==
  {pre \o g : pre \in {Str(""), Str("http://")}, g \in Strings(GarbageChars, MaxGarbageLen)}

MaxLabelLen == 3
LabelChars == {"s", "b", "i", "x"}

\* registered domains whose first label is a brand ("sbi"), near one or far from all
BrandLabelUrls ==
  {Str("http://") \o l \o Str(".com") : l \in Strings(LabelChars, MaxLabelLen)}

LabelPool == {Str("sbi"), Str("SBI"), Str("x"), Str("my-jio"), Str("a.sbi"), Str("sb")}

\* hosts with a brand in the subdomain, in the registered domain, in both, in none
BrandHostUrls ==
  {Str("http://") \o s \o Str(".") \o c \o Str(".xyz/") : s \in LabelPool, c \in LabelPool}

MaxPctTokens == 3
PctTokens == {Str("%41"), Str("%eF"), Str("%"), Str("z")}

\* valid and broken percent-escapes
PctUrls == Concats(PctTokens, MaxPctTokens)

MaxUpiTokens == 2
UpiTokens == {Str("a@YBL"), Str("kyc@ybl"), Str("1@x"), Str("/"), Str("@")}

\* payment addresses, legitimate and not, one after another
UpiUrls ==
  Concats(UpiTokens, MaxUpiTokens)
    \cup {Str("upi://pay?pa=KYC.help@ybl"), Str("upi://pay?pa=shop@ybl&pn=me@paytm")}

\* authorities with and without userinfo, with one ":" and with several
PortUrls ==
  { Str("http://u:1@h:81/"), Str("http://h:80:90/"), Str("http://h:443"),
    Str("http://h:0080/x"), Str("http://a@b@c:8080"), Str("http://h:/"),
    Str("http://h:8a/"), Str("http://u:80@h/"), Str("//h:8443?q"), Str("http://h:65536") }

\* keywords in the host, outside it, and in neither
KeywordUrls ==
  { Str("http://x.com/secure"), Str("http://secure.x.com/"), Str("http://x.com/Tax"),
    Str("http://x.com/q"), Str("http://a.b/login-bonus-pay-kyc-bank-gift-alert") }

Inputs ==
  Corpus \cup Garbage \cup BrandLabelUrls \cup BrandHostUrls \cup PctUrls \cup UpiUrls
    \cup PortUrls \cup KeywordUrls

\* the inputs of callers that run side by side
SharedInputs ==
  { Str("http://paypal.com"), Str("www.example.com/login"), Str("http://[bad.host/x") }

---------------------------------------------------------------------------
(* Callers                                                                  *)

Threads == {"t1", "t2"}
GroupNames == <<"A", "B", "C", "D", "E", "F", "G", "H">>

\* the position after group g: the next group, or the return statement
After(g) ==
  LET k == CHOOSE k \in 1..8 : GroupNames[k] = g
  IN IF k = 8 THEN "return" ELSE GroupNames[k + 1]

\* a faulty GlobalsAfterCall: the call remembers a TLD in SUSPICIOUS_TLDS
GlobalsTouched ==
  /\ SUSPICIOUS_TLDS' = SUSPICIOUS_TLDS \cup {Str("seen")}
  /\ UNCHANGED <<BRANDS, LEGIT_UPI_HANDLES, SHORT_URL_SERVICES, DANGEROUS_EXTENSIONS>>

\* extract_features reads the module globals and assigns none of them
GlobalsAfterCall == UNCHANGED tables

\* v with the assignments vals made to it
Assigned(v, vals) == [i \in Indices |-> IF i \in DOMAIN vals THEN vals[i] ELSE v[i]]

\* a caller invokes extract_features(u)
Call(t, inputs) ==
  /\ pc[t] = "idle"
  /\ \E u \in inputs :
       /\ url' = [url EXCEPT ![t] = u]
       /\ pc' = [pc EXCEPT ![t] = "parse"]
  /\ UNCHANGED <<p, f, min_dist, writers, solo, hist, unit>>
  /\ GlobalsAfterCall

\* lines 147-155: p = parse_url_parts(url); ...; f = [0.0] * 56
Parse(t) ==
  /\ pc[t] = "parse"
  /\ LET d == parse_url_parts(url[t])
     IN IF d.raised
          THEN /\ pc' = [pc EXCEPT ![t] = "raised"]
               /\ UNCHANGED <<p, f, writers, solo>>
          ELSE /\ pc' = [pc EXCEPT ![t] = "A"]
               /\ p' = [p EXCEPT ![t] = d]
               /\ f' = [f EXCEPT ![t] = ZeroVector]
               /\ writers' = [writers EXCEPT ![t] = [i \in Indices |-> {}]]
               /\ solo' = [solo EXCEPT ![t] = ZeroVector]
  /\ UNCHANGED <<url, min_dist, hist, unit>>
  /\ GlobalsAfterCall

\* the assignments vals of group g (alone: the same group run on a fresh f);
\* a division by zero raises ZeroDivisionError
RunGroup(t, g, vals, alone) ==
  /\ pc[t] = g
  /\ IF \E i \in DOMAIN vals : vals[i].den = 0
       THEN /\ pc' = [pc EXCEPT ![t] = "raised"]
            /\ UNCHANGED <<f, writers, solo>>
       ELSE /\ pc' = [pc EXCEPT ![t] = After(g)]
            /\ f' = [f EXCEPT ![t] = Assigned(@, vals)]
            /\ writers' = [writers EXCEPT ![t] =
                       [i \in Indices |-> IF i \in DOMAIN vals THEN @[i] \cup {g} ELSE @[i]]]
            /\ solo' = [solo EXCEPT ![t] = Assigned(@, alone)]
  /\ UNCHANGED <<url, p, hist, unit>>
  /\ GlobalsAfterCall

StepA(t) ==
  /\ RunGroup(t, "A", GroupA(url[t], p[t], f[t]), GroupA(url[t], p[t], ZeroVector))
  /\ UNCHANGED min_dist

StepB(t) ==
  /\ RunGroup(t, "B", GroupB(url[t], p[t], f[t]), GroupB(url[t], p[t], ZeroVector))
  /\ UNCHANGED min_dist

\* line 186: min_dist = min_brand_distance(domain), then lines 187-191
StepC(t) ==
  LET d == min_brand_distance(p[t].registered_domain)
  IN /\ RunGroup(t, "C", GroupC(url[t], p[t], f[t], d), GroupC(url[t], p[t], ZeroVector, d))
     /\ min_dist' = [min_dist EXCEPT ![t] = d]

StepD(t) ==
  /\ RunGroup(t, "D", GroupD(url[t], p[t], f[t]), GroupD(url[t], p[t], ZeroVector))
  /\ UNCHANGED min_dist

StepE(t) ==
  /\ RunGroup(t, "E", GroupE(url[t], p[t], f[t]), GroupE(url[t], p[t], ZeroVector))
  /\ UNCHANGED min_dist

StepF(t) ==
  /\ RunGroup(t, "F", GroupF(url[t], p[t], f[t]), GroupF(url[t], p[t], ZeroVector))
  /\ UNCHANGED min_dist

StepG(t) ==
  /\ RunGroup(t, "G", GroupG(url[t], p[t], f[t]), GroupG(url[t], p[t], ZeroVector))
  /\ UNCHANGED min_dist

StepH(t) ==
  /\ RunGroup(t, "H", GroupH(url[t], p[t], f[t]), GroupH(url[t], p[t], ZeroVector))
  /\ UNCHANGED min_dist

\* line 259: return f
Return(t) ==
  /\ pc[t] = "return"
  /\ pc' = [pc EXCEPT ![t] = "done"]
  /\ hist' = IF url[t] \in DOMAIN hist THEN hist ELSE hist @@ (url[t] :> f[t])
  /\ UNCHANGED <<url, p, f, min_dist, writers, solo, unit>>
  /\ GlobalsAfterCall

\* the caller drops the vector, and with it every local of the call
Release(t) ==
  /\ pc[t] = "done"
  /\ pc' = [pc EXCEPT ![t] = "idle"]
  /\ url' = [url EXCEPT ![t] = <<>>]
  /\ p' = [p EXCEPT ![t] = <<>>]
  /\ f' = [f EXCEPT ![t] = <<>>]
  /\ min_dist' = [min_dist EXCEPT ![t] = 0]
  /\ writers' = [writers EXCEPT ![t] = <<>>]
  /\ solo' = [solo EXCEPT ![t] = <<>>]
  /\ UNCHANGED <<hist, unit>>
  /\ UNCHANGED tables

Steps(t) ==
  \/ Parse(t)
  \/ StepA(t)
  \/ StepB(t)
  \/ StepC(t)
  \/ StepD(t)
  \/ StepE(t)
  \/ StepF(t)
  \/ StepG(t)
  \/ StepH(t)
  \/ Return(t)

NoUnit == [fn |-> "none", args |-> <<>>, ret |-> <<>>]

InitTables ==
  /\ BRANDS = BrandList
  /\ SUSPICIOUS_TLDS = SuspiciousTldSet
  /\ LEGIT_UPI_HANDLES = LegitUpiHandleSet
  /\ SHORT_URL_SERVICES = ShortUrlServiceSet
  /\ DANGEROUS_EXTENSIONS = DangerousExtensionSet

InitCallers ==
  /\ pc = [t \in Threads |-> "idle"]
  /\ url = [t \in Threads |-> <<>>]
  /\ p = [t \in Threads |-> <<>>]
  /\ f = [t \in Threads |-> <<>>]
  /\ min_dist = [t \in Threads |-> 0]
  /\ writers = [t \in Threads |-> <<>>]
  /\ solo = [t \in Threads |-> <<>>]
  /\ hist = <<>>

Init == InitTables /\ InitCallers /\ unit = NoUnit

\* one caller, one call on any input
Next ==
  \/ Call("t1", Inputs)
  \/ Steps("t1")

Spec == Init /\ [][Next]_vars

\* two callers side by side, call after call
NextShared ==
  \E t \in Threads :
    \/ Call(t, SharedInputs)
    \/ Steps(t)
    \/ Release(t)

SpecShared == Init /\ [][NextShared]_vars

---------------------------------------------------------------------------
(* The helpers called on their own                                          *)

MaxStrLen == 3
EditChars == {"a", "b"}
MaxEntLen == 3
EntChars == {"a", "b", "c", "d"}
NgramSizes == {1, 2, 3}

\* levenshtein on the pairs of a triple a, b, c; the entropies on a string
UnitCalls ==
  {[fn |-> "levenshtein", args |-> <<a, b, c>>, ret |-> <<>>] :
     a \in Strings(EditChars, MaxStrLen), b \in Strings(EditChars, MaxStrLen),
     c \in Strings(EditChars, MaxStrLen)}
  \cup {[fn |-> "shannon_entropy", args |-> <<s>>, ret |-> <<>>] :
     s \in Strings(EntChars, MaxEntLen)}
  \cup {[fn |-> "char_ngram_entropy", args |-> <<s, n>>, ret |-> <<>>] :
     s \in Strings(EntChars, MaxEntLen), n \in NgramSizes}

\* levenshtein(a, b), levenshtein(b, a), levenshtein(a, c), levenshtein(c, b)
CallLevenshtein ==
  /\ unit.fn = "levenshtein"
  /\ unit.ret = <<>>
  /\ LET a == unit.args[1]
         b == unit.args[2]
         c == unit.args[3]
     IN unit' = [unit EXCEPT !.ret = <<levenshtein(a, b), levenshtein(b, a),
                                       levenshtein(a, c), levenshtein(c, b)>>]
  /\ UNCHANGED <<pc, url, p, f, min_dist, writers, solo, hist>>
  /\ UNCHANGED tables

CallShannonEntropy ==
  /\ unit.fn = "shannon_entropy"
  /\ unit.ret = <<>>
  /\ unit' = [unit EXCEPT !.ret = <<shannon_entropy(unit.args[1])>>]
  /\ UNCHANGED <<pc, url, p, f, min_dist, writers, solo, hist>>
  /\ UNCHANGED tables

CallNgramEntropy ==
  /\ unit.fn = "char_ngram_entropy"
  /\ unit.ret = <<>>
  /\ unit' = [unit EXCEPT !.ret = <<char_ngram_entropy(unit.args[1], unit.args[2])>>]
  /\ UNCHANGED <<pc, url, p, f, min_dist, writers, solo, hist>>
  /\ UNCHANGED tables

InitUnit == InitTables /\ InitCallers /\ unit \in UnitCalls

NextUnit ==
  \/ CallLevenshtein
  \/ CallShannonEntropy
  \/ CallNgramEntropy

SpecUnit == InitUnit /\ [][NextUnit]_vars

---------------------------------------------------------------------------
(* Properties                                                               *)

\* a float that is finite: a quotient with a denominator above 0, or an
\* entropy whose every term -(c/n) * log2(c/n) has 0 < c/n <= 1
Finite(v) ==
  /\ v.den > 0
  /\ \A k \in 1..Len(v.counts) : 0 < v.counts[k] /\ v.counts[k] <= v.den

\* C1: extract_features lets no exception out on any input string (the empty
\* string, garbage, text whose decomposition raises) and returns exactly 56
\* values, each of them finite.
InvC1 ==
  \A t \in Threads :
    /\ pc[t] # "raised"
    /\ pc[t] = "done" =>
         /\ DOMAIN f[t] = 0..55
         /\ \A i \in 0..55 : Finite(f[t][i])

\* a call has returned on an input on which urlparse raised
WitC1 == pc["t1"] = "done" /\ urlparse(url["t1"]).error

\* C2: the call is stateless: the lookup tables stay as the module defines
\* them, and a call on an input returns the vector that the first call on
\* that input returned, whatever calls ran in between or run side by side.
InvC2 ==
  /\ BRANDS = BrandList
  /\ SUSPICIOUS_TLDS = SuspiciousTldSet
  /\ LEGIT_UPI_HANDLES = LegitUpiHandleSet
  /\ SHORT_URL_SERVICES = ShortUrlServiceSet
  /\ DANGEROUS_EXTENSIONS = DangerousExtensionSet
  /\ \A t \in Threads :
       pc[t] = "done" => url[t] \in DOMAIN hist /\ f[t] = hist[url[t]]

\* both callers hold the vector of the same input, after calls on every other
\* shared input
WitC2 ==
  /\ pc["t1"] = "done"
  /\ pc["t2"] = "done"
  /\ url["t1"] = url["t2"]
  /\ DOMAIN hist = SharedInputs

\* C3: levenshtein is a metric on strings: symmetric, zero exactly on equal
\* strings, and within the triangle inequality.
InvC3 ==
  (unit.fn = "levenshtein" /\ unit.ret # <<>>) =>
    LET a == unit.args[1]
        b == unit.args[2]
        ab == unit.ret[1]
        ba == unit.ret[2]
        ac == unit.ret[3]
        cb == unit.ret[4]
    IN /\ ab = ba
       /\ (ab = 0) <=> (a = b)
       /\ ab <= ac + cb

\* the shorter string came first, and the third string lies between the two
WitC3 ==
  /\ unit.fn = "levenshtein"
  /\ unit.ret # <<>>
  /\ Len(unit.args[1]) < Len(unit.args[2])
  /\ unit.args[3] \notin {unit.args[1], unit.args[2]}
  /\ unit.ret[1] = 2
  /\ unit.ret[1] = unit.ret[3] + unit.ret[4]

\* the input has no scheme and no "//"
Degenerate(u) == urlparse(u).scheme = <<>> /\ ~Contains(u, <<"/", "/">>)

BrandSet == {BRANDS[k] : k \in 1..Len(BRANDS)}

\* x turns into y by at most one insertion, deletion or substitution
WithinOneEdit(x, y) ==
  \/ /\ Len(x) = Len(y)
     /\ Cardinality({i \in 1..Len(x) : x[i] # y[i]}) <= 1
  \/ /\ Len(x) = Len(y) + 1
     /\ \E i \in 1..Len(x) : SubSeq(x, 1, i - 1) \o SubSeq(x, i + 1, Len(x)) = y
  \/ /\ Len(y) = Len(x) + 1
     /\ \E i \in 1..Len(y) : SubSeq(y, 1, i - 1) \o SubSeq(y, i + 1, Len(y)) = x

\* C5: brand_spoof_flag (index 21) is 1.0 exactly when 0 < d <= 2, d the least
\* Levenshtein distance from the lowercased first label of the registered
\* domain to a brand: d is 0 exactly on a brand and at most 1 exactly within
\* one edit of a brand; paypal.com gives 0.0 and paypa1.com (d = 1) gives 1.0.
InvC5 ==
  \A t \in Threads :
    pc[t] = "done" =>
      LET core == Lower(Split(p[t].registered_domain, ".")[1])
          d == min_dist[t]
      IN /\ f[t][21] = Rat(1, 1) <=> (0 < d /\ d <= 2)
         /\ f[t][21] \in {Rat(0, 1), Rat(1, 1)}
         /\ d = 0 <=> core \in BrandSet
         /\ d <= 1 <=> \E b \in BrandSet : WithinOneEdit(core, b)
         /\ p[t].registered_domain = Str("paypal.com") => d = 0 /\ f[t][21] = Rat(0, 1)
         /\ p[t].registered_domain = Str("paypa1.com") => d = 1 /\ f[t][21] = Rat(1, 1)

\* the call on a one-substitution variant of a brand has returned
WitC5 ==
  /\ pc["t1"] = "done"
  /\ p["t1"].registered_domain = Str("paypa1.com")
  /\ min_dist["t1"] = 1
  /\ f["t1"][21] = Rat(1, 1)

\* C6: brand_in_subdomain_only (index 23) is 1.0 exactly when some brand is a
\* substring of the subdomain and no brand is a substring of the first label
\* of the registered domain; it is 1.0 for paypal-secure.account-verify.xyz.
InvC6 ==
  \A t \in Threads :
    pc[t] = "done" =>
      LET first == Split(p[t].registered_domain, ".")[1]
      IN /\ f[t][23] = Rat(1, 1) <=>
              /\ \E b \in BrandSet : Contains(p[t].subdomain, b)
              /\ ~\E b \in BrandSet : Contains(first, b)
         /\ f[t][23] \in {Rat(0, 1), Rat(1, 1)}
         /\ p[t].host = Str("paypal-secure.account-verify.xyz") => f[t][23] = Rat(1, 1)

\* the call on a host with the brand in the subdomain only has returned
WitC6 ==
  /\ pc["t1"] = "done"
  /\ p["t1"].host = Str("paypal-secure.account-verify.xyz")
  /\ p["t1"].subdomain = Str("paypal-secure")
  /\ f["t1"][23] = Rat(1, 1)

IsFlag(v) == v \in {Rat(0, 1), Rat(1, 1)}
IsCount(v) == v.kind = "rat" /\ v.den = 1 /\ v.num >= 0
IsRatio(v) == v.kind = "rat" /\ v.den > 0 /\ 0 <= v.num /\ v.num <= v.den

RECURSIVE Pow(_, _)
Pow(b, e) == IF e = 0 THEN 1 ELSE b * Pow(b, e - 1)

RECURSIVE PowProduct(_)
\* the product of c^c over the counts
PowProduct(counts) ==
  IF counts = <<>> THEN 1 ELSE Pow(Head(counts), Head(counts)) * PowProduct(Tail(counts))

\* the entropy H of counts that sum to n has 2^(n * H) = n^n / product of c^c:
\* H is at most 1, or a whole number k
EntAtMostOne(v) ==
  (Pow(v.den, v.den) + PowProduct(v.counts) - 1) \div PowProduct(v.counts) <= Pow(2, v.den)
EntWhole(v) ==
  \E k \in 0..3 : Pow(v.den, v.den) = Pow(2, k * v.den) * PowProduct(v.counts)

\* one of the three shapes; an entropy over more than 9 elements (n^n no
\* longer an exact integer here) is left undecided and passes
Shape(v) ==
  IF v.kind = "rat" THEN IsFlag(v) \/ IsCount(v) \/ IsRatio(v)
  ELSE v.den > 9 \/ EntAtMostOne(v) \/ EntWhole(v)

\* C7 as the specification words it: every one of the 56 values is a flag, a
\* count or a ratio in [0, 1].
OrigC7 ==
  \A t \in Threads :
    pc[t] = "done" => \A i \in Indices : Shape(f[t][i])

\* C7: every value outside the entropy features (indices 16-20) is a flag, a
\* count or a ratio in [0, 1]; an entropy feature is a sum of terms that are
\* each at least 0, and it is not capped at 1.
InvC7 ==
  \A t \in Threads :
    pc[t] = "done" =>
      /\ \A i \in Indices \ (16..20) :
           IsFlag(f[t][i]) \/ IsCount(f[t][i]) \/ IsRatio(f[t][i])
      /\ \A i \in 16..20 :
           \/ f[t][i] = Rat(0, 1)
           \/ /\ f[t][i].kind = "ent"
              /\ \A k \in 1..Len(f[t][i].counts) :
                   0 < f[t][i].counts[k] /\ f[t][i].counts[k] <= f[t][i].den

\* the call on a URL of three distinct characters has returned: url_entropy
\* is log2(3), above 1 and no whole number
WitC7 ==
  /\ pc["t1"] = "done"
  /\ f["t1"][16] = Ent(<<1, 1, 1>>, 3)
  /\ ~EntAtMostOne(f["t1"][16])
  /\ ~EntWhole(f["t1"][16])

\* H = 0: every term -(c/n) * log2(c/n) is 0, so every count is n
IsZero(v) ==
  IF v.kind = "rat" THEN v.num = 0
  ELSE \A k \in 1..Len(v.counts) : v.counts[k] = v.den

\* H = log2(n), n >= 1:  2^(den * H) = n^den
IsLog2(v, n) ==
  IF v.kind = "rat" THEN v.num = 0 /\ n = 1
  ELSE Pow(v.den, v.den) = Pow(n, v.den) * PowProduct(v.counts)

\* C8: shannon_entropy returns 0.0 for the empty string and for a string of
\* one repeated character and log2(n) for n pairwise distinct characters;
\* char_ngram_entropy(s, n) returns 0.0 when s is shorter than n.
InvC8 ==
  /\ (unit.fn = "shannon_entropy" /\ unit.ret # <<>>) =>
       LET s == unit.args[1]
           v == unit.ret[1]
       IN /\ s = <<>> => v = Rat(0, 1)
          /\ (s # <<>> /\ \A i \in 1..Len(s) : s[i] = s[1]) => IsZero(v)
          /\ (s # <<>> /\ \A i, j \in 1..Len(s) : s[i] = s[j] => i = j) => IsLog2(v, Len(s))
  /\ (unit.fn = "char_ngram_entropy" /\ unit.ret # <<>>) =>
       (Len(unit.args[1]) < unit.args[2] => unit.ret[1] = Rat(0, 1))

\* shannon_entropy has returned on three distinct characters
WitC8 ==
  /\ unit.fn = "shannon_entropy"
  /\ Len(unit.args[1]) = 3
  /\ Cardinality({unit.args[1][i] : i \in 1..3}) = 3
  /\ unit.ret = <<Ent(<<1, 1, 1>>, 3)>>

\* the number of positions of u where a %XX escape stands
NumTriplets(u) == Cardinality({i \in 1..Len(u) : PctAt(u, i)})

\* C9: pct_encoding_ratio (index 32) is the number of valid %XX triplets of
\* the URL over its length, the length floored at 1: a URL of length L with
\* exactly two triplets gives 2 / L.
InvC9 ==
  \A t \in Threads :
    pc[t] = "done" =>
      /\ f[t][32].kind = "rat"
      /\ f[t][32].num * Max(Len(url[t]), 1) = NumTriplets(url[t]) * f[t][32].den
      /\ NumTriplets(url[t]) = 2 => f[t][32].num * Len(url[t]) = 2 * f[t][32].den

\* the call on a URL with exactly two triplets and other text has returned
WitC9 ==
  /\ pc["t1"] = "done"
  /\ NumTriplets(url["t1"]) = 2
  /\ Len(url["t1"]) > 6
  /\ f["t1"][32] = Rat(2, Len(url["t1"]))

\* the ranges as the claim lists them
ClaimedRange ==
  [A |-> 0..15, B |-> 16..20, C |-> 21..23, D |-> 24..30,
   E |-> 31..37, F |-> 38..47, G |-> 48..50, H |-> 51..55]

GroupIds == {"A", "B", "C", "D", "E", "F", "G", "H"}

TookFallback(u) ==
  \/ urlparse(u).error
  \/ StrIsDigit(HostPort(urlparse(u))[2]) /\ ~IntParses(HostPort(urlparse(u))[2])

\* the field derivations of the parts d, each stated on the host itself
Derived(d) ==
  /\ d.labels = Split(d.host, ".")
  /\ d.tld = d.labels[Len(d.labels)]
  /\ Len(d.labels) < 2 => d.registered_domain = d.host
  /\ Len(d.labels) >= 2 =>
       d.registered_domain
         = d.labels[Len(d.labels) - 1] \o <<".">> \o d.labels[Len(d.labels)]
  /\ Len(d.labels) <= 2 => d.subdomain = <<>>
  /\ Len(d.labels) > 2 =>
       /\ d.subdomain \o <<".">> \o d.registered_domain = d.host
       /\ Count(d.registered_domain, ".") = 1

\* C11 as the specification words it: the field derivations hold for every
\* input, the ones on which the fallback is taken included.
OrigC11 ==
  \A t \in Threads : pc[t] = "done" => Derived(p[t])

\* C11: on every input whose decomposition succeeds the parts satisfy the
\* field derivations (labels is host split on ".", tld the last label,
\* registered_domain the last two labels joined by "." or the whole host,
\* subdomain the labels before the last two joined by "." or empty); on the
\* fallback host and registered_domain are the whole input, labels holds the
\* input as its one element, and tld and subdomain are empty.
InvC11 ==
  \A t \in Threads :
    pc[t] = "done" =>
      IF TookFallback(url[t])
        THEN /\ p[t].host = url[t]
             /\ p[t].registered_domain = url[t]
             /\ p[t].labels = <<url[t]>>
             /\ p[t].tld = <<>>
             /\ p[t].subdomain = <<>>
        ELSE Derived(p[t])

\* a decomposition that succeeded on a host of four labels or more
WitC11 ==
  /\ pc["t1"] = "done"
  /\ ~TookFallback(url["t1"])
  /\ Len(p["t1"].labels) >= 4
  /\ Count(p["t1"].subdomain, ".") >= 1

\* the count of C12: every "/" of u, less the two of the first "//" if any
SlashesLessSeparator(u) ==
  IF Contains(u, <<"/", "/">>) THEN Count(u, "/") - 2 ELSE Count(u, "/")

\* C12 as the specification words it: slash_count (index 7) is the number of
\* "/" of the URL less the two characters of the first "//" when the URL
\* contains "//", and the number of "/" otherwise.
OrigC12 ==
  \A t \in Threads :
    pc[t] = "done" => f[t][7] = Flt(SlashesLessSeparator(url[t]))

\* a "/" stands before the first "//" and slash_count came out lower than the
\* claimed count
WitC12 ==
  /\ pc["t1"] = "done"
  /\ Contains(url["t1"], <<"/", "/">>)
  /\ Find(url["t1"], <<"/">>, 1) < Find(url["t1"], <<"/", "/">>, 1)
  /\ f["t1"][7].num < SlashesLessSeparator(url["t1"])

\* the fraud-pressure tokens as the specification lists them
FraudTokens ==
  {Str("refund"), Str("tax"), Str("prize"), Str("block"), Str("kyc"), Str("urgent"),
   Str("helpdesk"), Str("support"), Str("care")}

\* the match m of local-part@handle is one the claim calls suspicious
SuspiciousMatch(m) ==
  \/ Lower(m.handle) \notin LegitUpiHandleSet
  \/ \E k \in FraudTokens : Contains(Lower(m.prefix), k)

\* some match of local-part@handle in u is suspicious
SomeSuspicious(u) ==
  \E k \in 1..Len(UpiMatches(u, 1)) : SuspiciousMatch(UpiMatches(u, 1)[k])

\* C13: suspicious_upi_vpa (index 49) is 1.0 if and only if the URL holds a
\* match of local-part@handle whose lowercased handle is no legitimate handle
\* or whose lowercased local-part contains a fraud-pressure token, and 0.0
\* otherwise; the handle and the local-part of a match hold no "@".
InvC13 ==
  \A t \in Threads :
    pc[t] = "done" =>
      /\ f[t][49] = Flag(SomeSuspicious(url[t]))
      /\ f[t][49] = Flag(TRUE) => Contains(url[t], <<"@">>)

\* the first match is legitimate with a handle in upper case, a later one is
\* suspicious
WitC13 ==
  /\ pc["t1"] = "done"
  /\ Len(UpiMatches(url["t1"], 1)) >= 2
  /\ ~SuspiciousMatch(UpiMatches(url["t1"], 1)[1])
  /\ UpiMatches(url["t1"], 1)[1].handle # Lower(UpiMatches(url["t1"], 1)[1].handle)
  /\ f["t1"][49] = Flag(TRUE)

\* the authority of u without its userinfo: what follows the rightmost "@"
AfterUserinfo(u) ==
  From(Lower(urlparse(u).netloc), RFind(Lower(urlparse(u).netloc), <<"@">>) + 1)

\* what follows the last ":" of hp
TrailingSegment(hp) == From(hp, RFind(hp, <<":">>) + 1)

\* the port of host:port hp: the decimal digits after its one ":"
PortOf(hp) ==
  IF Count(hp, ":") = 1 /\ IntParses(TrailingSegment(hp))
    THEN <<DecValue(TrailingSegment(hp))>>
    ELSE <<>>

StandardPorts == {80, 443, 8080, 8443}

\* C14: the port is read from the authority after the rightmost "@" and is
\* present only when the segment after the last ":" of host:port is all
\* digits (it is then the value of that segment; host:port with a second ":"
\* has no port, and none is present after the fallback); port_anomaly
\* (index 15) is 1.0 if and only if a port is present and is none of 80, 443,
\* 8080, 8443.
InvC14 ==
  \A t \in Threads :
    pc[t] = "done" =>
      /\ p[t].port # <<>> =>
           /\ Contains(AfterUserinfo(url[t]), <<":">>)
           /\ StrIsDigit(TrailingSegment(AfterUserinfo(url[t])))
      /\ p[t].port = IF TookFallback(url[t]) THEN <<>> ELSE PortOf(AfterUserinfo(url[t]))
      /\ f[t][15] = Flag(p[t].port # <<>> /\ p[t].port[1] \notin StandardPorts)

\* the userinfo holds a ":" of its own, and the port after it is anomalous
WitC14 ==
  /\ pc["t1"] = "done"
  /\ Contains(urlparse(url["t1"]).netloc, <<"@">>)
  /\ Count(urlparse(url["t1"]).netloc, ":") = 2
  /\ p["t1"].port = <<81>>
  /\ f["t1"][15] = Flag(TRUE)

\* one of the five keyword flags (indices 24-28) of the vector v is 1.0
SomeKeywordFlag(v) == \E i \in 24..28 : v[i] = Flag(TRUE)

\* a trust keyword stands somewhere in the lowercased u
TrustWordInUrl(u) ==
  \E k \in {Str("secure"), Str("safe"), Str("trust"), Str("bank"), Str("protected"),
            Str("official"), Str("helpdesk")} : Contains(Lower(u), k)

OrigC16 ==
  \A t \in Threads :
    pc[t] = "done" => (f[t][40] = Flag(TRUE) <=> f[t][14].num >= 1)

\* the host has three labels, the first of them empty: subdomain_depth is 1
\* and has_subdomain is 0.0
WitC16 ==
  /\ pc["t1"] = "done"
  /\ Len(p["t1"].labels) = 3
  /\ p["t1"].labels[1] = <<>>
  /\ p["t1"].subdomain = <<>>
  /\ f["t1"][14] = Flt(1)
  /\ f["t1"][40] = Flag(FALSE)

\* C17: suspicious_upi_vpa (index 49) equal to 1.0 implies upi_vpa_present
\* (index 48) equal to 1.0, and a URL without "@" has both at 0.0.
InvC17 ==
  \A t \in Threads :
    pc[t] = "done" =>
      /\ f[t][49] = Flag(TRUE) => f[t][48] = Flag(TRUE)
      /\ ~Contains(url[t], <<"@">>) => f[t][48] = Flag(FALSE) /\ f[t][49] = Flag(FALSE)

\* a suspicious payment address that does not stand at the start of the URL
WitC17 ==
  /\ pc["t1"] = "done"
  /\ f["t1"][49] = Flag(TRUE)
  /\ f["t1"][48] = Flag(TRUE)
  /\ url["t1"][1] = "/"

=============================================================================
